---- MODULE Spec2Model ----
(***************************************************************************)
(* Model of generate-rss.js: the National Geographic listing scraper that  *)
(* writes feeds/feed.xml and keeps feeds/seen.json.  The source holds two  *)
(* variants of the script: the teaser variant (lines 1-266) and the        *)
(* enrichment variant (lines 268-673), which fetches every new article.    *)
(*                                                                         *)
(* Strings are sequences of tokens.  A URL is cut at the places the code   *)
(* looks at ("https://", "www.", "nationalgeographic.com", "/", ...), so   *)
(* startsWith and includes are prefix and contiguous-subsequence tests.    *)
(* Free text is cut into words and " " tokens; its length is the sum of    *)
(* the token lengths.                                                      *)
(*                                                                         *)
(* Faults of the environment: a fetch may fail, seen.json may be absent,   *)
(* unreadable or malformed, and the process may be stopped between two     *)
(* steps.  File writes are atomic and succeed.                             *)
(*                                                                         *)
(* Spec is the whole script over small listing pages, SpecExtract the      *)
(* extraction alone over richer pages, SpecImage pickImage alone over img  *)
(* objects with up to MaxCrops crops.                                      *)
(***************************************************************************)
EXTENDS Integers, Sequences, FiniteSets, TLC

\* Runs of the script in one behaviour.
MaxRuns == 2
\* Elements (structured-state objects, anchors, cards) of one listing page.
MaxElems == 2
\* Crops in one img object's crop list.
MaxCrops == 2

Range(s) == {s[k] : k \in 1..Len(s)}

(***************************************************************************)
(* String helpers                                                          *)
(***************************************************************************)
baseURL == <<"https://", "www.", "nationalgeographic.com">>

\* The host of targetURL.
targetHost == <<"www.", "nationalgeographic.com">>

\* s.startsWith("http")
StartsWithHttp(s) == Len(s) > 0 /\ s[1] \in {"http://", "https://"}

\* s.includes(pat)
Includes(s, pat) ==
  \E k \in 0..(Len(s) - Len(pat)) : SubSeq(s, k + 1, k + Len(pat)) = pat

RECURSIVE TrimLeft(_)
TrimLeft(s) == IF s # <<>> /\ Head(s) = " " THEN TrimLeft(Tail(s)) ELSE s

RECURSIVE TrimRight(_)
TrimRight(s) ==
  IF s # <<>> /\ s[Len(s)] = " " THEN TrimRight(SubSeq(s, 1, Len(s) - 1)) ELSE s

\* s.trim()
Trim(s) == TrimRight(TrimLeft(s))

\* s.length
RECURSIVE StrLen(_)
StrLen(s) == IF s = <<>> THEN 0 ELSE Len(Head(s)) + StrLen(Tail(s))

\* A JSON number where a string is expected: truthy, and without trim().
JsonNumber == <<"#number">>

(***************************************************************************)
(* Seen-URL helpers.  A Set is the sequence of its elements in insertion   *)
(* order; seen.json is [kind, data].                                       *)
(***************************************************************************)
SetAdd_Fresh(set, x) == <<x>>

\* set.add(x)
SetAdd(set, x) == IF x \in Range(set) THEN set ELSE Append(set, x)

RECURSIVE NewSet(_)
NewSet(arr) ==
  IF arr = <<>> THEN <<>>
  ELSE SetAdd(NewSet(SubSeq(arr, 1, Len(arr) - 1)), arr[Len(arr)])

loadSeenURLs_NoArrayCheck(file) ==
  IF file.kind \in {"absent", "unreadable", "badjson"} THEN <<>>
  ELSE NewSet(file.data)

loadSeenURLs(file) ==
  IF file.kind = "absent" THEN <<>>                          \* existsSync is false
  ELSE IF file.kind \in {"unreadable", "badjson"} THEN <<>>  \* thrown and caught
  ELSE NewSet(IF file.kind = "array" THEN file.data ELSE <<>>)

saveSeenURLs(seenSet) == [kind |-> "array", data |-> seenSet]

(***************************************************************************)
(* extractTilesFromState.  An object of the state JSON is a record; kids   *)
(* are its object-valued properties in Object.values order.                *)
(***************************************************************************)
NoDescription == [kind |-> "none", href |-> <<>>]

(***************************************************************************)
(* pickImage.  An img is [isNull, crpsIsArray, crps, src, rt]; a crop is   *)
(* [nm, url]; an absent field is <<>>.                                     *)
(***************************************************************************)
NullImg == [isNull |-> TRUE, crpsIsArray |-> FALSE, crps |-> <<>>, src |-> <<>>, rt |-> <<>>]

\* img.crps.find(c => c.nm === nm): <<>> is undefined, <<crop>> the crop found
RECURSIVE find(_, _)
find(crps, nm) ==
  IF crps = <<>> THEN <<>>
  ELSE IF Head(crps).nm = nm THEN <<Head(crps)>>
  ELSE find(Tail(crps), nm)

pickImage(im) ==
  IF im.isNull THEN <<>>
  ELSE LET crop == IF find(im.crps, "16x9") # <<>> THEN find(im.crps, "16x9")
                   ELSE IF find(im.crps, "3x2") # <<>> THEN find(im.crps, "3x2")
                   ELSE IF im.crps # <<>> THEN <<im.crps[1]>>
                   ELSE <<>>
       IN  IF im.crpsIsArray /\ crop # <<>> /\ crop[1].url # <<>> THEN crop[1].url
           ELSE IF im.src # <<>> THEN im.src
           ELSE IF im.rt # <<>> THEN im.rt
           ELSE <<>>

IsTile(cmsType) ==
  \/ Includes(cmsType, <<"Tile">>)
  \/ cmsType = <<"ArticleNav", "Tile">>
  \/ cmsType = <<"Featured", "Content", "Tile">>

processTile_NoSeenLinks(tile, acc) ==
  LET raw == IF tile.ctas # <<>> /\ tile.ctas[1].url # <<>> THEN tile.ctas[1].url
             ELSE IF tile.url # <<>> THEN tile.url
             ELSE IF tile.href # <<>> THEN tile.href
             ELSE <<>>
      title == IF tile.title # <<>> THEN tile.title
               ELSE IF tile.abstract # <<>> THEN tile.abstract
               ELSE <<>>
      link == IF ~StartsWithHttp(raw) THEN baseURL \o raw ELSE raw
  IN  IF raw = <<>> \/ title = <<>> THEN acc
      ELSE IF ~Includes(link, <<"nationalgeographic.com">>) THEN acc
      ELSE IF title = JsonNumber THEN [acc EXCEPT !.threw = TRUE]
      ELSE [items |-> Append(acc.items, [title |-> Trim(title), link |-> link,
                                         description |-> NoDescription]),
            seenLinks |-> acc.seenLinks \cup {link},
            threw |-> FALSE]

processTile(tile, acc) ==
  LET raw == IF tile.ctas # <<>> /\ tile.ctas[1].url # <<>> THEN tile.ctas[1].url
             ELSE IF tile.url # <<>> THEN tile.url
             ELSE IF tile.href # <<>> THEN tile.href
             ELSE <<>>
      title == IF tile.title # <<>> THEN tile.title
               ELSE IF tile.abstract # <<>> THEN tile.abstract
               ELSE <<>>
      link == IF ~StartsWithHttp(raw) THEN baseURL \o raw ELSE raw
  IN  IF raw = <<>> \/ title = <<>> THEN acc
      ELSE IF ~Includes(link, <<"nationalgeographic.com">>) THEN acc
      ELSE IF link \in acc.seenLinks THEN acc
      \* title.trim() of a value that is no string throws a TypeError
      ELSE IF title = JsonNumber THEN [acc EXCEPT !.threw = TRUE]
      ELSE [items |-> Append(acc.items, [title |-> Trim(title), link |-> link,
                                         description |-> NoDescription]),
            seenLinks |-> acc.seenLinks \cup {link},
            threw |-> FALSE]

RECURSIVE walk(_, _)
walk(obj, acc) ==
  IF acc.threw THEN acc
  ELSE LET RECURSIVE each(_, _)
           each(vs, a) == IF vs = <<>> THEN a ELSE each(Tail(vs), walk(Head(vs), a))
       IN  each(obj.kids, IF IsTile(obj.cmsType) THEN processTile(obj, acc) ELSE acc)

\* [threw, items]: the items returned, or threw when an exception leaves the walk.
extractTilesFromState(stateObj) ==
  LET r == walk(stateObj, [items |-> <<>>, seenLinks |-> {}, threw |-> FALSE])
  IN  [threw |-> r.threw, items |-> IF r.threw THEN <<>> ELSE r.items]

\* <<>> is null, <<obj>> the parsed state.
parseNatGeoState(html) ==
  IF html.script = "state" THEN <<html.state>>   \* JSON.parse succeeded
  ELSE <<>>                                      \* no such script, or parse failed

(***************************************************************************)
(* fallbackScrape over the elements "h2 a, h3 a, .PromoTile__Link,         *)
(* .Card__Content__AnchorLink" selects, in document order.                 *)
(***************************************************************************)
RECURSIVE fallbackEach(_, _)
fallbackEach(els, acc) ==
  IF els = <<>> THEN acc
  ELSE LET el == Head(els)
           href == el.href
           link == IF StartsWithHttp(href) THEN href ELSE baseURL \o href
           title == IF el.ariaLabel # <<>> THEN el.ariaLabel
                    ELSE IF Trim(el.srOnly) # <<>> THEN Trim(el.srOnly)
                    ELSE Trim(el.text)
           next == IF ~Includes(link, <<"nationalgeographic.com">>) THEN acc
                   ELSE IF link \in acc.seenLinks THEN acc
                   ELSE IF title = <<>> \/ StrLen(title) < 5 THEN acc
                   ELSE [items |-> Append(acc.items, [title |-> title, link |-> link,
                                                      description |-> NoDescription]),
                         seenLinks |-> acc.seenLinks \cup {link}]
       IN  fallbackEach(Tail(els), next)

fallbackScrape(anchors) ==
  fallbackEach(anchors, [items |-> <<>>, seenLinks |-> {}]).items

(***************************************************************************)
(* scrapeHomepageTeasers.  cards are the elements "div[class*='Card'],     *)
(* div[class*='Promo'], div[class*='card'], article" selects; headHref and *)
(* headText belong to the card's first headline link, articleHref to its   *)
(* first a[href*='/article'], titleText to its first [class*='Title'].     *)
(* articleAnchors are the elements "a[href*='/article']" selects.          *)
(***************************************************************************)
ArticlePaths ==
  { <<"/", "article">>, <<"/", "animals", "/">>, <<"/", "environment", "/">>,
    <<"/", "science", "/">>, <<"/", "history-culture", "/">>,
    <<"/", "travel", "/">>, <<"/", "photography", "/">> }

RECURSIVE cardEach(_, _)
cardEach(cards, items) ==
  IF cards = <<>> THEN items
  ELSE LET card == Head(cards)
           href == IF card.headHref # <<>> THEN card.headHref
                   ELSE IF card.articleHref # <<>> THEN card.articleHref
                   ELSE <<>>
           title == IF Trim(card.headText) # <<>> THEN Trim(card.headText)
                    ELSE Trim(card.titleText)
           link == IF StartsWithHttp(href) THEN href ELSE baseURL \o href
           next == IF title = <<>> \/ href = <<>> THEN items
                   ELSE IF \A pat \in ArticlePaths : ~Includes(href, pat) THEN items
                   ELSE Append(items, [title |-> title, link |-> link,
                                       description |-> NoDescription])
       IN  cardEach(Tail(cards), next)

RECURSIVE anchorEach(_, _)
anchorEach(els, items) ==
  IF els = <<>> THEN items
  ELSE LET el == Head(els)
           href == el.href
           link == IF StartsWithHttp(href) THEN href ELSE baseURL \o href
           title == IF Trim(el.text) # <<>> THEN Trim(el.text) ELSE Trim(el.heading)
           next == IF title = <<>> \/ StrLen(title) < 5 THEN items
                   ELSE Append(items, [title |-> title, link |-> link,
                                       description |-> NoDescription])
       IN  anchorEach(Tail(els), next)

scrapeHomepageTeasers(html) ==
  LET items == cardEach(html.cards, <<>>)
  IN  IF Len(items) = 0 THEN anchorEach(html.articleAnchors, <<>>) ELSE items

\* allItems.filter(...) with seenThisRun
RECURSIVE dedupThisRun(_, _)
dedupThisRun(items, seenThisRun) ==
  IF items = <<>> THEN <<>>
  ELSE IF Head(items).link \in seenThisRun THEN dedupThisRun(Tail(items), seenThisRun)
  ELSE <<Head(items)>> \o dedupThisRun(Tail(items), seenThisRun \cup {Head(items).link})

(***************************************************************************)
(* generateRSS: the part between the listing fetch and the new-items       *)
(* filter.  [threw, items].                                                *)
(***************************************************************************)
extractListing(v, html) ==
  IF v = "teaser"
  THEN LET stateObj == parseNatGeoState(html)
       IN  IF stateObj # <<>> THEN extractTilesFromState(stateObj[1])
           ELSE [threw |-> FALSE, items |-> fallbackScrape(html.anchors)]
  ELSE [threw |-> FALSE, items |-> dedupThisRun(scrapeHomepageTeasers(html), {})]

filterNew_None(allItems, seenSet) == allItems

\* allItems.filter(item => !seenURLs.has(item.link))
filterNew(allItems, seenSet) ==
  SelectSeq(allItems, LAMBDA item : item.link \notin Range(seenSet))

(***************************************************************************)
(* fetchFullArticle(url).  ok is whether fetchWithFlareSolverr returned    *)
(* the page.  [threw, description]; both fragments link to url.            *)
(***************************************************************************)
fetchFullArticle_Rethrow(url, ok) ==
  IF ok THEN [threw |-> FALSE, description |-> [kind |-> "body", href |-> url]]
  ELSE [threw |-> TRUE, description |-> NoDescription]

fetchFullArticle(url, ok) ==
  IF ok THEN [threw |-> FALSE, description |-> [kind |-> "body", href |-> url]]
  ELSE [threw |-> FALSE, description |-> [kind |-> "placeholder", href |-> url]]

(***************************************************************************)
(* The feed documents                                                      *)
(***************************************************************************)
buildFeed_SkipFirst(items) ==
  [k \in 1..(Len(items) - 1) |->
     [title |-> items[k + 1].title, url |-> items[k + 1].link,
      description |-> items[k + 1].description]]

\* newItems.forEach(item => feed.item({title, url: item.link, description}))
buildFeed(items) ==
  [k \in 1..Len(items) |->
     [title |-> items[k].title, url |-> items[k].link,
      description |-> items[k].description]]

FailedItem ==
  [title |-> <<"Feed", " ", "generation", " ", "failed">>, url |-> baseURL,
   description |-> [kind |-> "error", href |-> <<>>]]

catchFeed_Keep(old) == old

\* feed.xml after the catch block, given feed.xml before it
catchFeed(old) == <<FailedItem>>

checkpointFile_Batched(seenSet, link, file) == file

\* seen.json after "seenURLs.add(item.link); saveSeenURLs(seenURLs)"
checkpointFile(seenSet, link, file) == saveSeenURLs(SetAdd(seenSet, link))

afterFilter_NoEarlyReturn(v, new) ==
  IF v = "teaser" THEN "saveSeen"
  ELSE IF new = <<>> THEN "writeFeed"
  ELSE "fetchArticle"

\* Where generateRSS goes after the new-items filter: the early return, the
\* teaser variant's feed building and save, or the enrichment loop.
afterFilter(v, new) ==
  IF new = <<>> THEN "done"
  ELSE IF v = "teaser" THEN "saveSeen"
  ELSE "fetchArticle"

afterCheckpoint_AlwaysSleep(k, n) == "sleep"

\* Where the loop goes after item k of n is checkpointed: the delay before
\* the next item, or the feed after the last.
afterCheckpoint(k, n) == IF k < n THEN "sleep" ELSE "writeFeed"

RECURSIVE addAll(_, _)
addAll(seenSet, items) ==
  IF items = <<>> THEN seenSet
  ELSE addAll(SetAdd(seenSet, Head(items).link), Tail(items))

(***************************************************************************)
(* Inputs: hrefs, texts, the objects of a state JSON, the elements of a    *)
(* page, the contents of seen.json.                                        *)
(***************************************************************************)
hrefA == <<"/", "animals", "/", "a">>
hrefAabs == baseURL \o hrefA
hrefB == <<"/", "article", "/", "b">>
hrefVideo == <<"/", "video", "/", "v">>
hrefEvil == <<"https://", "evil.example", "/", "article", "/", "x">>
hrefEvilRef ==
  <<"https://", "evil.example", "/", "animals", "/", "?ref=", "nationalgeographic.com">>

linkA == baseURL \o hrefA
linkB == baseURL \o hrefB
linkOld == baseURL \o <<"/", "article", "/", "old">>

txtSharks == <<"Sharks">>
txtPadded == <<" ", "Whales", " ", "sing", " ">>
txtShort == <<"Sea">>

Obj(cms, ctas, url, href, title, abstract) ==
  [cmsType |-> cms, ctas |-> ctas, url |-> url, href |-> href, title |-> title,
   abstract |-> abstract, kids |-> <<>>]

tA == Obj(<<"Featured", "Content", "Tile">>, <<[url |-> hrefA]>>, <<>>, <<>>, txtSharks, <<>>)
tA2 == Obj(<<"ArticleNav", "Tile">>, <<>>, hrefAabs, <<>>, <<>>, txtPadded)
tB == Obj(<<"Prism", "Tile">>, <<[url |-> <<>>]>>, <<>>, hrefB, txtPadded, <<>>)
tRef == Obj(<<"Featured", "Content", "Tile">>, <<>>, hrefEvilRef, <<>>, txtSharks, <<>>)
tEvil == Obj(<<"Prism", "Tile">>, <<>>, hrefEvil, <<>>, txtSharks, <<>>)
tNum == Obj(<<"Prism", "Tile">>, <<>>, hrefB, <<>>, JsonNumber, <<>>)
tNoTitle == Obj(<<"ArticleNav", "Tile">>, <<>>, hrefB, <<>>, <<>>, <<>>)
oModule == Obj(<<"Hub", "Module">>, <<>>, hrefB, <<>>, txtSharks, <<>>)

TileObjects == {tA, tA2, tB, tRef, tEvil, tNum, tNoTitle, oModule}
ListingTiles == {tA, tB, tNum}

Anchor(href, aria, sr, text) ==
  [href |-> href, ariaLabel |-> aria, srOnly |-> sr, text |-> text]

aA == Anchor(hrefA, <<>>, <<>>, txtPadded)
aAabs == Anchor(hrefAabs, txtSharks, <<>>, txtShort)
aB == Anchor(hrefB, <<>>, <<" ", "Sharks">>, txtShort)
aShort == Anchor(hrefB, <<>>, <<>>, txtShort)
aRef == Anchor(hrefEvilRef, txtSharks, <<>>, <<>>)
aEvil == Anchor(hrefEvil, txtSharks, <<>>, <<>>)

Anchors == {aA, aAabs, aB, aShort, aRef, aEvil}
ListingAnchors == {aA, aB}

Card(headHref, articleHref, headText, titleText) ==
  [headHref |-> headHref, articleHref |-> articleHref, headText |-> headText,
   titleText |-> titleText]

cA == Card(hrefA, <<>>, txtPadded, <<>>)
cAabs == Card(hrefAabs, hrefB, <<>>, txtSharks)
cB == Card(<<>>, hrefB, <<>>, txtSharks)
cEvil == Card(hrefEvil, <<>>, txtSharks, <<>>)
cVideo == Card(hrefVideo, <<>>, txtSharks, <<>>)
cNoTitle == Card(hrefB, <<>>, <<" ">>, <<>>)

Cards == {cA, cAabs, cB, cEvil, cVideo, cNoTitle}
ListingCards == {cA, cB}

xB == [href |-> hrefB, text |-> txtSharks, heading |-> <<>>]
xBhead == [href |-> hrefB, text |-> <<" ">>, heading |-> txtPadded]
xEvil == [href |-> hrefEvil, text |-> txtSharks, heading |-> <<>>]
xShort == [href |-> hrefB, text |-> txtShort, heading |-> <<>>]

ArticleAnchors == {xB, xBhead, xEvil, xShort}
ListingArticleAnchors == {xB}

\* The sequences over S of length n, and of length at most n.
SeqsOfLen(S, n) == [1..n -> S]
SeqsUpTo(S, n) == UNION {SeqsOfLen(S, k) : k \in 0..n}

\* img objects: crops of three names, each with or without a url
urlX == <<"https://", "i.natgeofe.com", "/", "x.jpg">>
urlY == <<"https://", "i.natgeofe.com", "/", "y.jpg">>
urlSrc == <<"https://", "i.natgeofe.com", "/", "src.jpg">>
urlRt == <<"https://", "i.natgeofe.com", "/", "rt.jpg">>

Crops == [nm : {"16x9", "3x2", "1x1"}, url : {<<>>, urlX, urlY}]

Images ==
  {NullImg}
    \cup [isNull : {FALSE}, crpsIsArray : {TRUE}, crps : SeqsUpTo(Crops, MaxCrops),
          src : {<<>>, urlSrc}, rt : {<<>>, urlRt}]
    \* crps absent, or something that is no array
    \cup [isNull : {FALSE}, crpsIsArray : {FALSE}, crps : {<<>>},
          src : {<<>>, urlSrc}, rt : {<<>>, urlRt}]

\* The forests of exactly n objects of S: sequences of objects with kids.
Forests(S, n) ==
  LET F[k \in 0..n] ==
        IF k = 0 THEN {<<>>}
        ELSE UNION { { <<[t EXCEPT !.kids = sub]>> \o rest :
                         t \in S, sub \in F[j], rest \in F[k - 1 - j] } :
                     j \in 0..(k - 1) }
  IN  F[n]

hubRoot == Obj(<<>>, <<>>, <<>>, <<>>, <<>>, <<>>)
noState == hubRoot

Html(script, state, anchors, cards, articleAnchors) ==
  [script |-> script, state |-> state, anchors |-> anchors, cards |-> cards,
   articleAnchors |-> articleAnchors]

NoHtml == Html("none", noState, <<>>, <<>>, <<>>)

\* Pages for the teaser variant with at most n elements.
TeaserPages(tiles, anchors, n) ==
  UNION { { Html("state", [hubRoot EXCEPT !.kids = f], a, <<>>, <<>>) :
              f \in Forests(tiles, k), a \in SeqsUpTo(anchors, n - k) } :
          k \in 0..n }
  \cup { Html(sc, noState, a, <<>>, <<>>) :
           sc \in {"none", "malformed"}, a \in SeqsUpTo(anchors, n) }

\* Pages for the enrichment variant with at most n elements.
EnrichPages(cards, articleAnchors, n) ==
  UNION { { Html("none", noState, <<>>, c, x) :
              c \in SeqsOfLen(cards, k), x \in SeqsUpTo(articleAnchors, n - k) } :
          k \in 0..n }

ExtractDocs ==
  [teaser |-> TeaserPages(TileObjects, Anchors, MaxElems),
   enrich |-> EnrichPages(Cards, ArticleAnchors, MaxElems)]

ListingDocs ==
  [teaser |-> { d \in TeaserPages(ListingTiles, ListingAnchors, MaxElems) :
                  d.script # "malformed" /\ (d.script = "state" => d.anchors = <<>>) },
   enrich |-> EnrichPages(ListingCards, ListingArticleAnchors, MaxElems)]

File(kind, data) == [kind |-> kind, data |-> data]

InitialFiles ==
  { File("absent", <<>>), File("unreadable", <<>>), File("badjson", <<>>),
    File("nonarray", <<linkA>>), File("array", <<linkOld>>),
    File("array", <<linkB, linkA, linkB>>) }

\* The links a well-formed seen.json lists.
LinksOf(file) == IF file.kind = "array" THEN Range(file.data) ELSE {}

(***************************************************************************)
(* State                                                                   *)
(***************************************************************************)
VARIABLES
  variant,          \* which script is installed: "teaser" or "enrich"
  run,              \* runs started so far
  pc,               \* where the current run stands
  seenFile,         \* feeds/seen.json
  feedFile,         \* feeds/feed.xml: its items, <<>> while it does not exist
  seenURLs,         \* generateRSS: seenURLs
  html,             \* generateRSS: htmlContent
  allItems,         \* generateRSS: allItems
  newItems,         \* generateRSS: newItems
  i,                \* the enrichment loop's index, from 1
  failed,           \* the catch block of this run was entered
  feedWritten,      \* this run wrote the feed of its new items
  fetched,          \* links whose fetchFullArticle call returned in this run, in order
  fetchFailed,      \* links whose article fetch failed in this run
  inflight,         \* the link fetched and not yet checkpointed
  loadedSeen,       \* the set loadSeenURLs returned to this run
  saves,            \* the link sets this run wrote to seen.json, in order
  emitLog,          \* the link sets of the feeds written so far, in order
  completedBefore,  \* links fetched and checkpointed by earlier runs
  tampered,         \* seen.json was removed or damaged between two runs
  events,           \* what this run has done at its awaits, in order
  filesAtStart,     \* seen.json and feed.xml when this run started
  img,              \* pickImage: its argument
  image             \* pickImage: its result

vars ==
  <<variant, run, pc, seenFile, feedFile, seenURLs, html, allItems, newItems, i,
    failed, feedWritten, fetched, fetchFailed, inflight, loadedSeen, saves,
    emitLog, completedBefore, tampered, events, filesAtStart, img, image>>

files == <<seenFile, feedFile>>
locals == <<seenURLs, html, allItems, newItems, i>>
runLog == <<fetched, fetchFailed, inflight, loadedSeen, saves>>
history == <<emitLog, completedBefore, tampered>>
pick == <<img, image>>

Event(op, k) == [op |-> op, k |-> k]

Running ==
  {"load", "fetchListing", "extract", "saveSeen", "fetchArticle", "checkpoint",
   "sleep", "writeFeed", "catch"}

Links(items) == {items[k].link : k \in 1..Len(items)}

\* The links of the items of a feed that are articles.
RealLinks(feed) ==
  {feed[k].url : k \in {j \in 1..Len(feed) : feed[j].description.kind # "error"}}

Init ==
  /\ variant \in {"teaser", "enrich"}
  /\ run = 0
  /\ pc = "idle"
  /\ seenFile \in InitialFiles
  /\ feedFile = <<>>
  /\ seenURLs = <<>>
  /\ html = NoHtml
  /\ allItems = <<>>
  /\ newItems = <<>>
  /\ i = 0
  /\ failed = FALSE
  /\ feedWritten = FALSE
  /\ fetched = <<>>
  /\ fetchFailed = {}
  /\ inflight = {}
  /\ loadedSeen = {}
  /\ saves = <<>>
  /\ emitLog = <<LinksOf(seenFile)>>   \* what earlier feeds carried
  /\ completedBefore = {}
  /\ tampered = FALSE
  /\ events = <<>>
  /\ filesAtStart = <<seenFile, feedFile>>
  /\ img = NullImg
  /\ image = <<>>

(***************************************************************************)
(* generateRSS, one action per step                                        *)
(***************************************************************************)
\* The script is started: module level and the call of generateRSS().
StartRun ==
  /\ pc \in {"idle", "done", "crashed"}
  /\ run < MaxRuns
  /\ run' = run + 1
  /\ pc' = "load"
  /\ seenURLs' = <<>>
  /\ html' = NoHtml
  /\ allItems' = <<>>
  /\ newItems' = <<>>
  /\ i' = 0
  /\ failed' = FALSE
  /\ feedWritten' = FALSE
  /\ fetched' = <<>>
  /\ fetchFailed' = {}
  /\ inflight' = {}
  /\ loadedSeen' = {}
  /\ saves' = <<>>
  /\ completedBefore' = completedBefore \cup (Range(fetched) \ inflight)
  /\ events' = <<>>
  /\ filesAtStart' = <<seenFile, feedFile>>
  /\ UNCHANGED <<variant, files, emitLog, tampered, pick>>

\* const seenURLs = loadSeenURLs()
Load ==
  /\ pc = "load"
  /\ seenURLs' = loadSeenURLs(seenFile)
  /\ loadedSeen' = Range(seenURLs')
  /\ pc' = "fetchListing"
  /\ UNCHANGED <<variant, run, files, html, allItems, newItems, i, failed,
                 feedWritten, fetched, fetchFailed, inflight, saves, history,
                 events, filesAtStart, pick>>

\* await fetchWithFlareSolverr(targetURL): the page, or an exception
FetchListing ==
  /\ pc = "fetchListing"
  /\ \/ /\ pc' = "catch"
        /\ failed' = TRUE
        /\ UNCHANGED <<html, events>>
     \/ /\ html' \in ListingDocs[variant]
        /\ pc' = "extract"
        /\ events' = Append(events, Event("listing", 0))
        /\ UNCHANGED failed
  /\ UNCHANGED <<variant, run, files, seenURLs, allItems, newItems, i,
                 feedWritten, runLog, history, filesAtStart, pick>>

\* From cheerio.load to the "no new articles" return; the teaser variant goes on
\* to build the feed and add every new link to seenURLs.
Extract ==
  /\ pc = "extract"
  /\ LET r == extractListing(variant, html)
         new == filterNew(r.items, seenURLs)
         next == afterFilter(variant, new)
     IN  IF r.threw
         THEN /\ pc' = "catch"
              /\ failed' = TRUE
              /\ UNCHANGED <<allItems, newItems, seenURLs, i, events>>
         ELSE /\ allItems' = r.items
              /\ newItems' = new
              /\ UNCHANGED failed
              /\ pc' = next
              /\ seenURLs' = IF next = "saveSeen" THEN addAll(seenURLs, new)
                             ELSE seenURLs
              \* the loop is entered and fetchFullArticle is called for item 1
              /\ i' = IF next = "fetchArticle" THEN 1 ELSE i
              /\ events' = IF next = "fetchArticle"
                           THEN Append(events, Event("start", 1)) ELSE events
  /\ html' = NoHtml
  /\ UNCHANGED <<variant, run, files, feedWritten, runLog, history, filesAtStart,
                 pick>>

\* Teaser variant: saveSeenURLs(seenURLs)
SaveSeen ==
  /\ pc = "saveSeen"
  /\ seenFile' = saveSeenURLs(seenURLs)
  /\ saves' = Append(saves, LinksOf(seenFile'))
  /\ pc' = "writeFeed"
  /\ UNCHANGED <<variant, run, feedFile, locals, failed, feedWritten, fetched,
                 fetchFailed, inflight, loadedSeen, history, events, filesAtStart,
                 pick>>

\* Enrichment variant: item.description = await fetchFullArticle(item.link)
FetchArticle ==
  /\ pc = "fetchArticle"
  /\ \E ok \in BOOLEAN :
       LET link == newItems[i].link
           r == fetchFullArticle(link, ok)
       IN  IF r.threw
           THEN /\ pc' = "catch"
                /\ failed' = TRUE
                /\ UNCHANGED <<newItems, fetched, fetchFailed, inflight, events>>
           ELSE /\ newItems' = [newItems EXCEPT ![i].description = r.description]
                /\ events' = Append(events, Event("end", i))
                /\ fetched' = Append(fetched, link)
                /\ fetchFailed' = IF ok THEN fetchFailed ELSE fetchFailed \cup {link}
                /\ inflight' = {link}
                /\ pc' = "checkpoint"
                /\ UNCHANGED failed
  /\ UNCHANGED <<variant, run, files, seenURLs, html, allItems, i, feedWritten,
                 loadedSeen, saves, history, filesAtStart, pick>>

\* seenURLs.add(item.link); saveSeenURLs(seenURLs)
Checkpoint ==
  /\ pc = "checkpoint"
  /\ seenURLs' = SetAdd(seenURLs, newItems[i].link)
  /\ seenFile' = checkpointFile(seenURLs, newItems[i].link, seenFile)
  /\ saves' = Append(saves, LinksOf(seenFile'))
  /\ inflight' = {}
  /\ pc' = afterCheckpoint(i, Len(newItems))
  /\ events' = Append(events, Event("checkpoint", i))
  /\ UNCHANGED <<variant, run, feedFile, html, allItems, newItems, i, failed,
                 feedWritten, fetched, fetchFailed, loadedSeen, history,
                 filesAtStart, pick>>

\* await sleep(FETCH_DELAY_MS) returns, then i++ and fetchFullArticle is called
\* for the next item
Sleep ==
  /\ pc = "sleep"
  /\ i' = i + 1
  /\ pc' = "fetchArticle"
  /\ events' = events \o <<Event("sleep", i), Event("start", i + 1)>>
  /\ UNCHANGED <<variant, run, files, seenURLs, html, allItems, newItems, failed,
                 feedWritten, runLog, history, filesAtStart, pick>>

\* fs.writeFileSync("./feeds/feed.xml", ...) of the new items
WriteFeed ==
  /\ pc = "writeFeed"
  /\ feedFile' = buildFeed(newItems)
  /\ feedWritten' = TRUE
  /\ emitLog' = Append(emitLog, RealLinks(feedFile'))
  /\ pc' = "done"
  /\ UNCHANGED <<variant, run, seenFile, locals, failed, runLog, completedBefore,
                 tampered, events, filesAtStart, pick>>

\* The catch block: the placeholder feed
Catch ==
  /\ pc = "catch"
  /\ feedFile' = catchFeed(feedFile)
  /\ pc' = "done"
  /\ UNCHANGED <<variant, run, seenFile, locals, failed, feedWritten, runLog,
                 history, events, filesAtStart, pick>>

\* The process is stopped between two steps.
Crash ==
  /\ pc \in Running
  /\ pc' = "crashed"
  /\ UNCHANGED <<variant, run, files, locals, failed, feedWritten, runLog, history,
                 events, filesAtStart, pick>>

\* Between two runs seen.json is removed or damaged.
Tamper ==
  /\ pc \in {"done", "crashed"}
  /\ run < MaxRuns
  /\ seenFile.kind = "array"
  /\ seenFile' \in {File("absent", <<>>), File("badjson", <<>>)}
  /\ tampered' = TRUE
  /\ UNCHANGED <<variant, run, pc, feedFile, locals, failed, feedWritten, runLog,
                 emitLog, completedBefore, events, filesAtStart, pick>>

Next ==
  \/ StartRun
  \/ Load
  \/ FetchListing
  \/ Extract
  \/ SaveSeen
  \/ FetchArticle
  \/ Checkpoint
  \/ Sleep
  \/ WriteFeed
  \/ Catch
  \/ Crash
  \/ Tamper

Spec == Init /\ [][Next]_vars

(***************************************************************************)
(* The extraction alone, over every page of ExtractDocs                    *)
(***************************************************************************)
InitExtract ==
  /\ variant \in {"teaser", "enrich"}
  /\ html \in ExtractDocs[variant]
  /\ pc = "parse"
  /\ run = 0
  /\ seenFile = File("absent", <<>>)
  /\ feedFile = <<>>
  /\ seenURLs = <<>>
  /\ allItems = <<>>
  /\ newItems = <<>>
  /\ i = 0
  /\ failed = FALSE
  /\ feedWritten = FALSE
  /\ fetched = <<>>
  /\ fetchFailed = {}
  /\ inflight = {}
  /\ loadedSeen = {}
  /\ saves = <<>>
  /\ emitLog = <<{}>>
  /\ completedBefore = {}
  /\ tampered = FALSE
  /\ events = <<>>
  /\ filesAtStart = <<seenFile, feedFile>>
  /\ img = NullImg
  /\ image = <<>>

ExtractOnly(v) ==
  /\ pc = "parse"
  /\ variant = v
  /\ LET r == extractListing(variant, html)
     IN  /\ allItems' = r.items
         /\ failed' = r.threw
  /\ pc' = "extracted"
  /\ UNCHANGED <<variant, run, files, seenURLs, html, newItems, i, feedWritten,
                 runLog, history, events, filesAtStart, pick>>

ExtractTeaser == ExtractOnly("teaser")

ExtractEnrich == ExtractOnly("enrich")

NextExtract ==
  \/ ExtractTeaser
  \/ ExtractEnrich

SpecExtract == InitExtract /\ [][NextExtract]_vars

(***************************************************************************)
(* Properties                                                              *)
(***************************************************************************)
InLoop == variant = "enrich" /\ pc \in {"fetchArticle", "checkpoint", "sleep", "writeFeed"}

\* C1: in the enrichment loop seen.json lists every link whose fetchFullArticle
\* call has returned in this run, except at most the one link fetched and not
\* yet checkpointed; and while seen.json stays intact, a run fetches no link
\* that an earlier run had fetched and checkpointed before it stopped.
C1_CheckpointAfterEveryItem ==
  InLoop =>
    /\ Range(fetched) \ LinksOf(seenFile) \subseteq inflight
    /\ Cardinality(inflight) <= 1
    /\ ~tampered => Links(newItems) \cap completedBefore = {}

\* A later enrichment run, after a run that stopped having checkpointed a link,
\* has fetched a link and not yet checkpointed it.
C1_Witness ==
  /\ variant = "enrich"
  /\ pc = "checkpoint"
  /\ run = 2
  /\ ~tampered
  /\ completedBefore # {}
  /\ Len(emitLog) = 1
  /\ inflight # {}

Emitted == UNION {emitLog[k] : k \in 1..Len(emitLog)}

\* C2 as claimed: whenever no run is under way (the last one ended or was
\* stopped part-way), every link seen.json lists has been an item of a feed.xml
\* written by this or an earlier run.
C2_SeenImpliesEmitted ==
  pc \in {"idle", "done", "crashed"} => LinksOf(seenFile) \subseteq Emitted

\* C2 as amended: once a run has written the feed of its new items, every link
\* the run added to seen.json is an item of that feed.
C2_SeenEmittedAtFeedWrite ==
  (pc = "done" /\ feedWritten) =>
    (LinksOf(seenFile) \ loadedSeen) \subseteq RealLinks(feedFile)

\* A run added two links to seen.json and wrote its feed.
C2_Witness ==
  /\ pc = "done"
  /\ feedWritten
  /\ Cardinality(LinksOf(seenFile) \ loadedSeen) = 2

\* C3: while seen.json is readable and well-formed at the start of every run,
\* no two feeds written carry the same article link.
C3_NoReEmission ==
  ~tampered =>
    \A j, k \in 1..Len(emitLog) : j # k => emitLog[j] \cap emitLog[k] = {}

\* Two runs have each written a feed of articles.
C3_Witness ==
  /\ ~tampered
  /\ Len(emitLog) = 3
  /\ emitLog[2] # {}
  /\ emitLog[3] # {}

\* C4: a run whose try block raised has written feed.xml with the placeholder
\* item alone.
C4_FailureWritesPlaceholder ==
  (pc = "done" /\ failed) => feedFile = <<FailedItem>>

\* A failed run has replaced the feed of articles an earlier run wrote.
C4_Witness ==
  /\ pc = "done"
  /\ failed
  /\ run = 2
  /\ Len(emitLog) = 2
  /\ emitLog[2] # {}

PathStart == {"/", "?ref="}

RECURSIVE HostTokens(_)
HostTokens(s) ==
  IF s = <<>> \/ Head(s) \in PathStart THEN <<>>
  ELSE <<Head(s)>> \o HostTokens(Tail(s))

\* The host of an absolute URL; <<>> for a relative one.
Host(link) == IF StartsWithHttp(link) THEN HostTokens(Tail(link)) ELSE <<>>

\* C6 as claimed: every item an extraction strategy returns has an absolute
\* link whose host is the target host.
C6_LinksOnTargetHost ==
  pc = "extracted" => \A k \in 1..Len(allItems) : Host(allItems[k].link) = targetHost

\* The objects of a state JSON in depth-first order, parents first.
RECURSIVE Preorder(_)
Preorder(obj) ==
  LET RECURSIVE cat(_)
      cat(vs) == IF vs = <<>> THEN <<>> ELSE Preorder(Head(vs)) \o cat(Tail(vs))
  IN  <<obj>> \o cat(obj.kids)

\* The item each tile yields when it is the only object of the state.
RECURSIVE Candidates(_)
Candidates(objs) ==
  IF objs = <<>> THEN <<>>
  ELSE (IF IsTile(Head(objs).cmsType)
        THEN extractTilesFromState(Head(objs)).items ELSE <<>>)
       \o Candidates(Tail(objs))

\* C7: the items of one extraction have pairwise distinct links, and of the
\* tiles of the state JSON that resolve to one link the first in the
\* depth-first walk gives the item.
C7_DistinctLinks ==
  pc = "extracted" =>
    /\ \A j, k \in 1..Len(allItems) : j # k => allItems[j].link # allItems[k].link
    /\ (variant = "teaser" /\ html.script = "state" /\ ~failed) =>
         \A k \in 1..Len(allItems) :
           LET c == Candidates([n \in 1..Len(Preorder(html.state)) |->
                                  [Preorder(html.state)[n] EXCEPT !.kids = <<>>]])
               first == CHOOSE n \in 1..Len(c) :
                          /\ c[n].link = allItems[k].link
                          /\ \A m \in 1..(n - 1) : c[m].link # allItems[k].link
           IN  allItems[k] = c[first]

\* Two tiles of the state JSON resolve to the same link and one item is returned.
C7_Witness ==
  /\ pc = "extracted"
  /\ variant = "teaser"
  /\ html.script = "state"
  /\ html.state.kids = <<tA, tA2>>
  /\ Len(allItems) = 1
  /\ allItems[1].title = tA.title

\* C8: every set a run writes to seen.json contains the set the run loaded and
\* every set the run wrote before, and seenURLs never loses a loaded link.
C8_SeenOnlyGrows ==
  /\ loadedSeen \subseteq Range(seenURLs)
  /\ \A k \in 1..Len(saves) :
       /\ loadedSeen \subseteq saves[k]
       /\ \A j \in 1..k : saves[j] \subseteq saves[k]

\* A run that loaded links has saved twice.
C8_Witness ==
  /\ loadedSeen # {}
  /\ Len(saves) = 2

\* C9: loadSeenURLs leaves the run at the listing fetch, with the elements of
\* the array seen.json holds, or with the empty set when seen.json is absent,
\* unreadable, no JSON or no array.
C9_LoadNeverFails ==
  pc = "fetchListing" =>
    /\ ~failed
    /\ seenFile.kind = "array" => Range(seenURLs) = Range(seenFile.data)
    /\ seenFile.kind # "array" => seenURLs = <<>>
    /\ Cardinality(Range(seenURLs)) = Len(seenURLs)

\* seen.json holds JSON that is no array, and the run is at the listing fetch.
C9_Witness ==
  /\ pc = "fetchListing"
  /\ seenFile.kind = "nonarray"

\* C10: an enrichment run in which an article fetch failed is not aborted: it
\* fetches every new item in order and writes the feed of all new items, the
\* failed ones with the placeholder fragment linking to the article.
C10_EnrichmentNeverRaises ==
  /\ (variant = "enrich" /\ failed) => fetched = <<>>
  /\ (variant = "enrich" /\ pc = "done" /\ fetchFailed # {}) =>
       /\ ~failed
       /\ feedWritten
       /\ fetched = [k \in 1..Len(newItems) |-> newItems[k].link]
       /\ Len(feedFile) = Len(newItems)
       /\ \A k \in 1..Len(newItems) :
            /\ feedFile[k].url = newItems[k].link
            /\ feedFile[k].description =
                 [kind |-> IF newItems[k].link \in fetchFailed
                           THEN "placeholder" ELSE "body",
                  href |-> newItems[k].link]

\* The first of two article fetches failed and the run has ended.
C10_Witness ==
  /\ variant = "enrich"
  /\ pc = "done"
  /\ Len(newItems) = 2
  /\ newItems[1].link \in fetchFailed
  /\ newItems[2].link \notin fetchFailed

(***************************************************************************)
(* pickImage alone, over every img object of Images                        *)
(***************************************************************************)
InitImage ==
  /\ variant = "teaser"
  /\ html = NoHtml
  /\ pc = "pick"
  /\ run = 0
  /\ seenFile = File("absent", <<>>)
  /\ feedFile = <<>>
  /\ seenURLs = <<>>
  /\ allItems = <<>>
  /\ newItems = <<>>
  /\ i = 0
  /\ failed = FALSE
  /\ feedWritten = FALSE
  /\ fetched = <<>>
  /\ fetchFailed = {}
  /\ inflight = {}
  /\ loadedSeen = {}
  /\ saves = <<>>
  /\ emitLog = <<{}>>
  /\ completedBefore = {}
  /\ tampered = FALSE
  /\ events = <<>>
  /\ filesAtStart = <<seenFile, feedFile>>
  /\ img \in Images
  /\ image = <<>>

\* const image = pickImage(tile.img)
PickImage ==
  /\ pc = "pick"
  /\ image' = pickImage(img)
  /\ pc' = "picked"
  /\ UNCHANGED <<variant, run, files, locals, failed, feedWritten, runLog, history,
                 events, filesAtStart, img>>

NextImage == PickImage

SpecImage == InitImage /\ [][NextImage]_vars

(***************************************************************************)
(* Ordering of the enrichment run's requests.                              *)
(***************************************************************************)
Starts == {p \in 1..Len(events) : events[p].op = "start"}

Ends == {p \in 1..Len(events) : events[p].op = "end"}

\* What precedes the call of fetchFullArticle logged at position p.
PrecededInOrder(p) ==
  LET k == events[p].k
  IN  IF k = 1
      THEN p = 2 /\ events[1] = Event("listing", 0)
      ELSE /\ p > 3
           /\ events[p - 3] = Event("end", k - 1)
           /\ events[p - 2] = Event("checkpoint", k - 1)
           /\ events[p - 1] = Event("sleep", k - 1)

\* C11: in the enrichment variant the listing fetch has completed before the
\* first article fetch starts; at most one article fetch is in flight; the
\* fetch of article k+1 starts only after article k's result is stored in the
\* item, its link is written to seen.json and the delay has elapsed; there
\* is no delay after the last article.  The teaser variant fetches no article.
C11_ArticleFetchesSequential ==
  /\ variant = "teaser" => events \in {<<>>, <<Event("listing", 0)>>}
  /\ \A p \in Starts :
        /\ PrecededInOrder(p)
        /\ p < Len(events) => events[p + 1] = Event("end", events[p].k)
  /\ Cardinality(Starts) - Cardinality(Ends) \in {0, 1}
  /\ \A p \in 1..Len(events) :
        LET k == events[p].k
        IN  /\ events[p].op = "end" =>
                 newItems[k].description.kind \in {"body", "placeholder"}
            /\ events[p].op = "checkpoint" =>
                 /\ Len(saves) >= k
                 /\ newItems[k].link \in saves[k]
            /\ events[p].op = "sleep" => k < Len(newItems)
  /\ pc = "sleep" => i < Len(newItems)
  /\ pc = "writeFeed" /\ variant = "enrich" =>
        events[Len(events)] = Event("checkpoint", Len(newItems))

\* An enrichment run fetched two articles, one after the other, and ended.
C11_Witness ==
  /\ variant = "enrich"
  /\ pc = "done"
  /\ ~failed
  /\ Len(newItems) = 2
  /\ events = <<Event("listing", 0),
                Event("start", 1), Event("end", 1), Event("checkpoint", 1),
                Event("sleep", 1),
                Event("start", 2), Event("end", 2), Event("checkpoint", 2)>>

(***************************************************************************)
(* The image of a structured node.                                         *)
(***************************************************************************)
RECURSIVE FirstNonEmpty(_)
FirstNonEmpty(vs) ==
  IF vs = <<>> THEN <<>>
  ELSE IF Head(vs) # <<>> THEN Head(vs)
  ELSE FirstNonEmpty(Tail(vs))

\* The url of the first crop named nm, <<>> when the list has none.
UrlOfCrop(im, nm) ==
  LET named == {k \in 1..Len(im.crps) : im.crps[k].nm = nm}
  IN  IF named = {} THEN <<>>
      ELSE im.crps[CHOOSE k \in named : \A j \in named : k <= j].url

UrlOfFirstCrop(im) == IF im.crps = <<>> THEN <<>> ELSE im.crps[1].url

\* C12: the image picked for a structured node is the first non-empty value
\* among the url of the crop named 16x9, the url of the crop named 3x2, the
\* url of the first crop, the raw src field and the rt field, in that order,
\* wherever the crops stand in the list; it is empty when all are empty.
C12_FirstNonEmptyInOrder ==
  pc = "picked" =>
    image = FirstNonEmpty(<<UrlOfCrop(img, "16x9"), UrlOfCrop(img, "3x2"),
                            UrlOfFirstCrop(img), img.src, img.rt>>)

(***************************************************************************)
(* A run that finds nothing new.                                           *)
(***************************************************************************)
NothingNew == pc = "done" /\ ~failed /\ newItems = <<>>

\* C13: a run that finds no new item ends without writing anything: feed.xml
\* and seen.json are as they were when the run started, and no article was
\* fetched.  (seen.json may since have been removed or damaged from outside,
\* which leaves it other than an array, something no run writes.)
C13_NothingNewWritesNothing ==
  NothingNew =>
    /\ feedFile = filesAtStart[2]
    /\ seenFile = filesAtStart[1] \/ seenFile.kind # "array"
    /\ saves = <<>>
    /\ ~feedWritten
    /\ fetched = <<>>
    /\ Starts = {}

\* A second run found only items that the first run had already recorded.
C13_Witness ==
  /\ NothingNew
  /\ run = 2
  /\ allItems # <<>>
  /\ feedFile # <<>>
  /\ seenFile = filesAtStart[1]
  /\ events = <<Event("listing", 0)>>

====
